---------------------------- MODULE Spec2Model ----------------------------
(***************************************************************************)
(* A model of the analytics suite: the column resolver of the loader       *)
(* (src/src/data_loader.py, get_column_mapping over                        *)
(* config/settings.py COMMON_SALES_COLS) and the analysis engine           *)
(* (src/src/data_analyzer.py).                                             *)
(*                                                                         *)
(* A DataFrame is a record [columns, dtypes, rows]: the ordered column     *)
(* names, the dtype of each column ("number" or "object") and the rows,    *)
(* each a tuple of cells aligned with the columns.  A cell is a record     *)
(* [k, v, s]: a number v (k = "num"), a missing value NaN (k = "nan") or   *)
(* a text s (k = "str").                                                   *)
(* Column names are strings; "x in col.lower()" is computed character by   *)
(* character.                                                              *)
(***************************************************************************)
EXTENDS Integers, Sequences, FiniteSets, TLC

VARIABLES df, mapping, prev, last, analyzers, file, loader, disk, sessions, console

vars == <<df, mapping, prev, last, analyzers, file, loader, disk, sessions, console>>

(***************************************************************************)
(* Bounds of the model.                                                    *)
(***************************************************************************)
MaxCols == 4
MaxRows == 3
MaxLineLen == 3
MaxDataRows == 2
MaxFiles == 3
MaxSessions == 2

(***************************************************************************)
(* Strings: str.lower() and the substring test "sub in s".                 *)
(***************************************************************************)
LowerChar(c) ==
    CASE c = "A" -> "a" [] c = "B" -> "b" [] c = "C" -> "c" [] c = "D" -> "d"
      [] c = "E" -> "e" [] c = "F" -> "f" [] c = "G" -> "g" [] c = "H" -> "h"
      [] c = "I" -> "i" [] c = "J" -> "j" [] c = "K" -> "k" [] c = "L" -> "l"
      [] c = "M" -> "m" [] c = "N" -> "n" [] c = "O" -> "o" [] c = "P" -> "p"
      [] c = "Q" -> "q" [] c = "R" -> "r" [] c = "S" -> "s" [] c = "T" -> "t"
      [] c = "U" -> "u" [] c = "V" -> "v" [] c = "W" -> "w" [] c = "X" -> "x"
      [] c = "Y" -> "y" [] c = "Z" -> "z" [] OTHER -> c

\* a plausible slip: "possible in col" without .lower()
lower_forgotten(s) == s

RECURSIVE lower(_)
lower(s) ==
    IF Len(s) = 0 THEN ""
    ELSE LowerChar(SubSeq(s, 1, 1)) \o lower(SubSeq(s, 2, Len(s)))

\* Python's "sub in s" for strings
Contains(sub, s) ==
    \E i \in 0..(Len(s) - Len(sub)) : SubSeq(s, i + 1, i + Len(sub)) = sub

(***************************************************************************)
(* config/settings.py: AnalysisConfig                                      *)
(***************************************************************************)
\* the keys of COMMON_SALES_COLS in the order the dict literal lists them
Roles == <<"sales", "product", "category", "stock", "price">>

COMMON_SALES_COLS ==
    [sales    |-> <<"ventas", "sales", "vendas", "cajas vend", "unidades vendidas">>,
     product  |-> <<"producto", "product", "produto", "item", "sku">>,
     category |-> <<"categoria", "category", "rubro", "departamento", "laboratorio">>,
     stock    |-> <<"stock", "inventario", "cajas stock", "inventory">>,
     price    |-> <<"precio", "price", "costo", "pvp">>]

\* every column name and every keyword the model uses; the substring tests
\* are evaluated once per (keyword, name) and looked up afterwards
KnownNames ==
    {"Product", "Laboratory", "Cajas Vend. Total", "Cajas Stock Total", "Producto",
     "Laboratorio", "Rubro", "Ventas", "Sales", "Stock", "Inventario", "Notas",
     "Fecha"}

KnownKeywords ==
    UNION {{COMMON_SALES_COLS[r][i] : i \in 1..Len(COMMON_SALES_COLS[r])} :
              r \in DOMAIN COMMON_SALES_COLS}
    \cup {"stock", "vent", "sales", "cajas vend. total", "cajas stock total",
          "venta", "venda", "fecha", "date", "periodo", "mes", "dia"}

MatchTable == [kw \in KnownKeywords |-> {n \in KnownNames : Contains(kw, lower(n))}]

\* possible in col.lower()
InLower(possible, col) == col \in MatchTable[possible]

(***************************************************************************)
(* DataLoader.get_column_mapping                                           *)
(***************************************************************************)
\* [col for col in self.df.columns if possible in col.lower()]
matching_cols(columns, possible) ==
    SelectSeq(columns, LAMBDA col : InLower(possible, col))

\* the inner loop "for possible in possible_names": <<>> when no keyword
\* matches, else <<matching_cols[0]>> of the first keyword that matches
RECURSIVE first_possible(_, _, _)
first_possible(columns, possible_names, k) ==
    IF k > Len(possible_names) THEN <<>>
    ELSE LET m == matching_cols(columns, possible_names[k])
         IN  IF m # <<>> THEN <<m[1]>>
             ELSE first_possible(columns, possible_names, k + 1)

\* a plausible slip: columns iterated outer, keywords inner
RECURSIVE first_column_any(_, _, _)
first_column_any(columns, possible_names, i) ==
    IF i > Len(columns) THEN <<>>
    ELSE IF \E k \in 1..Len(possible_names) :
                InLower(possible_names[k], columns[i])
         THEN <<columns[i]>>
         ELSE first_column_any(columns, possible_names, i + 1)

resolve_columns_outer(columns, possible_names) ==
    first_column_any(columns, possible_names, 1)

\* one iteration of "for standard_name, possible_names in ...items()"
resolve_role(columns, possible_names) ==
    first_possible(columns, possible_names, 1)

RoleSet == {Roles[i] : i \in 1..Len(Roles)}

\* a plausible slip: a role no keyword matches falls back to the first column
get_column_mapping_fallback(columns) ==
    LET hit(r) == resolve_role(columns, COMMON_SALES_COLS[r])
        resolved == {r \in RoleSet : hit(r) # <<>> \/ columns # <<>>}
    IN  [r \in resolved |-> IF hit(r) # <<>> THEN hit(r)[1] ELSE columns[1]]

\* a plausible slip: "mapping[standard_name] = None" for a role no keyword
\* matches, so every role is a key
get_column_mapping_none(columns) ==
    LET hit(r) == resolve_role(columns, COMMON_SALES_COLS[r])
    IN  [r \in RoleSet |-> IF hit(r) # <<>> THEN hit(r)[1] ELSE "None"]

\* the mapping returned: a role is a key exactly when a keyword matched
get_column_mapping(columns) ==
    LET hit(r) == resolve_role(columns, COMMON_SALES_COLS[r])
        resolved == {r \in RoleSet : hit(r) # <<>>}
    IN  [r \in resolved |-> hit(r)[1]]


(***************************************************************************)
(* DataFrames                                                              *)
(***************************************************************************)
Num(n) == [k |-> "num", v |-> n, s |-> ""]
NaN    == [k |-> "nan", v |-> 0, s |-> ""]
Str(t) == [k |-> "str", v |-> 0, s |-> t]

NRows(d) == Len(d.rows)
NCols(d) == Len(d.columns)
Cell(d, r, c) == d.rows[r][c]
IsNull(x) == x.k = "nan"
Elems(q) == {q[j] : j \in 1..Len(q)}

\* [col for col in self.df.columns if <test>]: the positions, in column
\* order, of the columns whose name is in the set names
ColsWhere(d, names) ==
    LET RECURSIVE from(_)
        from(i) == IF i > NCols(d) THEN <<>>
                   ELSE (IF d.columns[i] \in names THEN <<i>> ELSE <<>>) \o from(i + 1)
    IN  from(1)

\* df.select_dtypes(include=[np.number]).columns
numeric_cols(d) ==
    LET RECURSIVE from(_)
        from(i) == IF i > NCols(d) THEN <<>>
                   ELSE (IF d.dtypes[i] = "number" THEN <<i>> ELSE <<>>) \o from(i + 1)
    IN  from(1)

\* pd.DataFrame()
EmptyFrame == [columns |-> <<>>, index |-> <<>>]

\* the result of a call: a returned value or a raised exception
Ok(val) == [ok |-> TRUE, exc |-> "", at |-> "", val |-> val]
Raise(exc, at) == [ok |-> FALSE, exc |-> exc, at |-> at, val |-> <<>>]

\* self.<name>() for a name the class DataAnalyzer (lines 9-140) never defines
AttributeError(name) == Raise("AttributeError", name)

(***************************************************************************)
(* DataAnalyzer._get_basic_statistics (memory_usage_mb is left out)        *)
(***************************************************************************)
missing_total(d) ==
    Cardinality({rc \in (1..NRows(d)) \X (1..NCols(d)) : IsNull(Cell(d, rc[1], rc[2]))})

\* a plausible slip: duplicated(keep=False), which marks every row that has
\* an equal row, the first occurrence included
duplicated_keep_false(d) ==
    {r \in 1..NRows(d) : \E q \in 1..NRows(d) : q # r /\ d.rows[q] = d.rows[r]}

\* self.df.duplicated(): the rows equal to an earlier row in every column
\* (missing values compare equal)
duplicated(d) ==
    {r \in 1..NRows(d) : \E q \in 1..(r - 1) : d.rows[q] = d.rows[r]}

\* select_dtypes(include=['object']).columns
object_cols(d) ==
    LET RECURSIVE from(_)
        from(i) == IF i > NCols(d) THEN <<>>
                   ELSE (IF d.dtypes[i] = "object" THEN <<i>> ELSE <<>>) \o from(i + 1)
    IN  from(1)

_get_basic_statistics(d) ==
    Ok([total_rows |-> NRows(d),
        total_columns |-> NCols(d),
        missing_values |-> missing_total(d),
        duplicate_rows |-> Cardinality(duplicated(d)),
        numeric_columns |-> Len(numeric_cols(d)),
        categorical_columns |-> Len(object_cols(d))])

(***************************************************************************)
(* DataAnalyzer._identify_low_stock                                        *)
(***************************************************************************)
DefaultThreshold == 5

\* a plausible slip: the lower bound "& (... >= 0)" forgotten
low_stock_mask_no_floor(x, threshold) ==
    x.k = "num" /\ x.v <= threshold

\* (self.df[c] <= threshold) & (self.df[c] >= 0); a comparison with NaN is False
low_stock_mask(x, threshold) ==
    x.k = "num" /\ x.v <= threshold /\ x.v >= 0

\* sort_values(c) of the selected rows: ascending, ties in table order
RECURSIVE InsertByValue(_, _, _, _)
InsertByValue(d, c, sorted, r) ==
    IF sorted = <<>> THEN <<r>>
    ELSE IF Cell(d, r, c).v < Cell(d, sorted[1], c).v
         THEN <<r>> \o sorted
         ELSE <<sorted[1]>> \o InsertByValue(d, c, Tail(sorted), r)

RECURSIVE sort_values(_, _, _)
sort_values(d, c, index) ==
    IF index = <<>> THEN <<>>
    ELSE InsertByValue(d, c, sort_values(d, c, SubSeq(index, 1, Len(index) - 1)),
                       index[Len(index)])

stock_cols(d) == ColsWhere(d, MatchTable["stock"])

_identify_low_stock(d, threshold) ==
    IF stock_cols(d) = <<>> THEN Ok(EmptyFrame)
    ELSE LET c == stock_cols(d)[1]
             selected == SelectSeq([r \in 1..NRows(d) |-> r],
                                   LAMBDA r : low_stock_mask(Cell(d, r, c), threshold))
         IN  IF \E r \in 1..NRows(d) : Cell(d, r, c).k = "str"
             THEN Raise("TypeError", "_identify_low_stock")  \* str <= int
             ELSE Ok([columns |-> d.columns, index |-> sort_values(d, c, selected)])

(***************************************************************************)
(* DataAnalyzer._analyze_sales and _analyze_inventory                      *)
(***************************************************************************)
sales_cols(d) ==
    ColsWhere(d, MatchTable["vent"] \cup MatchTable["sales"])

\* the first numeric sales column reaches self._get_top_products, which the
\* class does not define; without a numeric one the dict stays empty
_analyze_sales(d) ==
    IF sales_cols(d) = <<>> THEN Ok([error |-> TRUE, cols |-> <<>>])
    ELSE IF \E j \in 1..Len(sales_cols(d)) : d.dtypes[sales_cols(d)[j]] = "number"
         THEN AttributeError("_get_top_products")
         ELSE Ok([error |-> FALSE, cols |-> <<>>])

\* the dict literal evaluates _identify_low_stock() and then
\* self._identify_overstock(), which the class does not define
_analyze_inventory(d) ==
    LET low == _identify_low_stock(d, DefaultThreshold)
    IN  IF ~low.ok THEN low ELSE AttributeError("_identify_overstock")

(***************************************************************************)
(* DataAnalyzer._detect_anomalies                                          *)
(*                                                                         *)
(* Numbers are integers, so the tests are computed exactly: with n values  *)
(* of sum S and sum of squares SS, |x - mean| > 3 * std (population std)   *)
(* is (n*x - S)^2 > 9 * (n*SS - S^2); quartiles are kept times 4.          *)
(***************************************************************************)
RECURSIVE SumSeq(_)
SumSeq(q) == IF q = <<>> THEN 0 ELSE q[1] + SumSeq(Tail(q))

RECURSIVE InsertInt(_, _)
InsertInt(sorted, x) ==
    IF sorted = <<>> THEN <<x>>
    ELSE IF x < sorted[1] THEN <<x>> \o sorted
         ELSE <<sorted[1]>> \o InsertInt(Tail(sorted), x)

RECURSIVE SortInts(_)
SortInts(q) == IF q = <<>> THEN <<>> ELSE InsertInt(SortInts(Tail(q)), q[1])

\* the values of column c with the missing ones dropped: df[c].dropna()
dropna(d, c) ==
    LET present == SelectSeq([r \in 1..NRows(d) |-> r], LAMBDA r : ~IsNull(Cell(d, r, c)))
    IN  [j \in 1..Len(present) |-> Cell(d, present[j], c).v]

\* np.abs(stats.zscore(values)) > 3 for the value x of a constant-free column;
\* a constant column has z = NaN, and NaN > 3 is False
zscore_gt3(values, x) ==
    LET n  == Len(values)
        S  == SumSeq(values)
        SS == SumSeq([j \in 1..n |-> values[j] * values[j]])
    IN  (n * x - S) * (n * x - S) > 9 * (n * SS - S * S)

\* 4 * Series.quantile(p4 / 4), linear interpolation between order statistics
quantile4(values, p4) ==
    LET sorted == SortInts(values)
        pos4 == p4 * (Len(values) - 1)
        lo == (pos4 \div 4) + 1
        fr == pos4 % 4
    IN  IF fr = 0 THEN 4 * sorted[lo]
        ELSE 4 * sorted[lo] + fr * (sorted[lo + 1] - sorted[lo])

\* (x < Q1 - 1.5 * IQR) | (x > Q3 + 1.5 * IQR), both sides times 8
iqr_outlier(values, x) ==
    LET Q1 == quantile4(values, 1)
        Q3 == quantile4(values, 3)
        IQR == Q3 - Q1
    IN  8 * x < 2 * Q1 - 3 * IQR \/ 8 * x > 2 * Q3 + 3 * IQR

\* a plausible slip: to_dict('records') of all the flagged rows, no .head()
head_forgotten(index) == index

\* DataFrame.head(): the first 5 rows (n defaults to 5)
head(index) == SubSeq(index, 1, IF Len(index) < 5 THEN Len(index) ELSE 5)

\* the entry of one numeric column without missing values
anomalies_of(d, c) ==
    LET values == dropna(d, c)
        rows == [r \in 1..NRows(d) |-> r]
        flagged == SelectSeq(rows, LAMBDA r : iqr_outlier(values, Cell(d, r, c).v))
    IN  [col |-> d.columns[c],
         z_score_anomalies |->
             Cardinality({r \in 1..NRows(d) : zscore_gt3(values, Cell(d, r, c).v)}),
         iqr_anomalies |-> Len(flagged),
         samples |-> head(flagged)]

\* the z-scores of the dropna()'d column index the whole table: a column with
\* a missing value has fewer z-scores than the table has rows, and
\* self.df[z_scores > 3] raises (ValueError "Item wrong length" for an array,
\* IndexingError "Unalignable boolean Series" for a Series)
RECURSIVE anomalies_from(_, _, _)
anomalies_from(d, cols, acc) ==
    IF cols = <<>> THEN Ok(acc)
    ELSE IF Len(dropna(d, cols[1])) # NRows(d)
         THEN Raise("ValueError", "_detect_anomalies")
         ELSE anomalies_from(d, Tail(cols), Append(acc, anomalies_of(d, cols[1])))

_detect_anomalies(d) == anomalies_from(d, numeric_cols(d), <<>>)

(***************************************************************************)
(* DataAnalyzer._generate_recommendations                                  *)
(***************************************************************************)
vent_cols(d) == ColsWhere(d, MatchTable["vent"])

\* (self.df[c] == 0).sum()
zero_count(d, c) ==
    Cardinality({r \in 1..NRows(d) : Cell(d, r, c).k = "num" /\ Cell(d, r, c).v = 0})

\* a plausible slip: ">=" in place of ">"
over_30_percent_inclusive(zero_sales, rows) == 10 * zero_sales >= 3 * rows

\* zero_sales > len(self.df) * 0.3; the double product len * 0.3 compares with
\* an integer as the exact 3 * len / 10 does for every len below 3000
over_30_percent(zero_sales, rows) == 10 * zero_sales > 3 * rows

\* a plausible slip: the rules chained with elif, so only the first
\* applicable one fires
_generate_recommendations_elif(d) ==
    LET low_stock == _identify_low_stock(d, DefaultThreshold)
        n_low == Len(low_stock.val.index)
        zero_sales == zero_count(d, vent_cols(d)[1])
    IN  IF ~low_stock.ok THEN low_stock
        ELSE IF n_low > 0 THEN Ok(<<[kind |-> "restock", n |-> n_low]>>)
        ELSE IF vent_cols(d) # <<>> /\ over_30_percent(zero_sales, NRows(d))
             THEN Ok(<<[kind |-> "rotation", n |-> zero_sales]>>)
        ELSE IF missing_total(d) > 0
             THEN Ok(<<[kind |-> "missing", n |-> missing_total(d)]>>)
        ELSE Ok(<<>>)

_generate_recommendations(d) ==
    LET low_stock == _identify_low_stock(d, DefaultThreshold)
        n_low == Len(low_stock.val.index)
        zero_sales == zero_count(d, vent_cols(d)[1])
        r1 == IF n_low > 0 THEN <<[kind |-> "restock", n |-> n_low]>> ELSE <<>>
        r2 == IF vent_cols(d) # <<>> /\ over_30_percent(zero_sales, NRows(d))
              THEN <<[kind |-> "rotation", n |-> zero_sales]>> ELSE <<>>
        r3 == IF missing_total(d) > 0
              THEN <<[kind |-> "missing", n |-> missing_total(d)]>> ELSE <<>>
    IN  IF ~low_stock.ok THEN low_stock ELSE Ok(r1 \o r2 \o r3)

(***************************************************************************)
(* DataAnalyzer.comprehensive_analysis                                     *)
(***************************************************************************)
comprehensive_analysis(d) ==
    LET basic_stats == _get_basic_statistics(d)
        sales_analysis == _analyze_sales(d)
        inventory_analysis == _analyze_inventory(d)
        trends == AttributeError("_detect_trends")
        anomalies == _detect_anomalies(d)
        recommendations == _generate_recommendations(d)
    IN  IF ~basic_stats.ok THEN basic_stats
        ELSE IF ~sales_analysis.ok THEN sales_analysis
        ELSE IF ~inventory_analysis.ok THEN inventory_analysis
        ELSE IF ~trends.ok THEN trends
        ELSE IF ~anomalies.ok THEN anomalies
        ELSE IF ~recommendations.ok THEN recommendations
        ELSE Ok([basic_stats |-> basic_stats.val,
                 sales_analysis |-> sales_analysis.val,
                 inventory_analysis |-> inventory_analysis.val,
                 trends |-> trends.val,
                 anomalies |-> anomalies.val,
                 recommendations |-> recommendations.val])

(***************************************************************************)
(* _analyze_product_rotation (module level, lines 167-182).  A turnover is *)
(* a fraction num/den with den > 0, or NaN, or an infinity.                *)
(***************************************************************************)
\* self._find_column(keywords): defined nowhere in the sources; taken to be
\* the resolver's lookup, <<name>> of the first match or <<>> for None
_find_column(d, keywords) == resolve_role(d.columns, keywords)

ColumnPos(d, name) == CHOOSE i \in 1..NCols(d) :
                          d.columns[i] = name /\ \A j \in 1..(i - 1) : d.columns[j] # name

Frac(n, m) == IF m < 0 THEN [k |-> "num", num |-> -n, den |-> -m]
              ELSE [k |-> "num", num |-> n, den |-> m]
NaNFrac == [k |-> "nan", num |-> 0, den |-> 1]
InfFrac(sign) == [k |-> "inf", num |-> sign, den |-> 1]

\* a plausible slip: the division without .replace(0, 1)
rotacion_no_replace(sales, stock) ==
    IF IsNull(sales) \/ IsNull(stock) THEN NaNFrac
    ELSE IF stock.v # 0 THEN Frac(sales.v, stock.v)
    ELSE IF sales.v > 0 THEN InfFrac(1)
    ELSE IF sales.v < 0 THEN InfFrac(-1)
    ELSE NaNFrac

\* df_rotation[sales_col] / df_rotation[stock_col].replace(0, 1), one row
rotacion(sales, stock) ==
    IF IsNull(sales) \/ IsNull(stock) THEN NaNFrac
    ELSE Frac(sales.v, IF stock.v = 0 THEN 1 ELSE stock.v)

\* pd.cut(x, bins=[-1, 0.1, 0.5, 1, 5, inf], labels=[...]): right-closed
\* intervals (-1, 0.1], (0.1, 0.5], (0.5, 1], (1, 5], (5, inf]; a value in
\* none of them has the category NaN
estado_rotacion(x) ==
    IF x.k = "nan" THEN "NaN"
    ELSE IF x.k = "inf" THEN (IF x.num > 0 THEN "Muy Alta" ELSE "NaN")
    ELSE IF x.num <= -x.den THEN "NaN"
    ELSE IF 10 * x.num <= x.den THEN "Sin ventas"
    ELSE IF 2 * x.num <= x.den THEN "Baja"
    ELSE IF x.num <= x.den THEN "Media"
    ELSE IF x.num <= 5 * x.den THEN "Alta"
    ELSE "Muy Alta"

_analyze_product_rotation(d) ==
    LET sales_col == _find_column(d, <<"cajas vend. total">>)
        stock_col == _find_column(d, <<"cajas stock total">>)
        sc == ColumnPos(d, sales_col[1])
        kc == ColumnPos(d, stock_col[1])
        row(r) == LET x == rotacion(Cell(d, r, sc), Cell(d, r, kc))
                  IN  [sales |-> Cell(d, r, sc), stock |-> Cell(d, r, kc),
                       rotacion |-> x, estado_rotacion |-> estado_rotacion(x)]
    IN  IF sales_col = <<>> \/ stock_col = <<>> THEN Ok([columns |-> <<>>, rows |-> <<>>])
        ELSE IF \E r \in 1..NRows(d) : Cell(d, r, sc).k = "str" \/ Cell(d, r, kc).k = "str"
             THEN Raise("TypeError", "_analyze_product_rotation")  \* str / number
        ELSE IF ~(\E i \in 1..NCols(d) : d.columns[i] = "Producto")
                \/ ~(\E i \in 1..NCols(d) : d.columns[i] = "Laboratorio")
             THEN Raise("KeyError", "_analyze_product_rotation")
        ELSE Ok([columns |-> <<"Producto", "Laboratorio", sales_col[1], stock_col[1],
                               "rotacion", "estado_rotacion">>,
                 rows |-> [r \in 1..NRows(d) |-> row(r)]])

(***************************************************************************)
(* ReportGenerator._generate_excel_report (src/src/report_generator.py).   *)
(* A report is the sequence of the sheet names written, with the rows of   *)
(* the low-stock sheet and the alert rows.                                 *)
(***************************************************************************)
\* df[df[c] <= 5]: the rows in table order; no lower bound on the stock
rows_at_most_5(d, c) ==
    SelectSeq([r \in 1..NRows(d) |-> r],
              LAMBDA r : Cell(d, r, c).k = "num" /\ Cell(d, r, c).v <= 5)

HasText(d, c) == \E r \in 1..NRows(d) : Cell(d, r, c).k = "str"

\* a plausible slip: the sheet written without the test "if sales_data:"
_create_sales_analysis_sheet_always(d) == <<"Analisis_Ventas">>

\* the sheet is written when a numeric column contains venta, sales or venda
_create_sales_analysis_sheet(d) ==
    LET sales == ColsWhere(d, MatchTable["venta"] \cup MatchTable["sales"]
                                  \cup MatchTable["venda"])
    IN  IF \E j \in 1..Len(sales) : d.dtypes[sales[j]] = "number"
        THEN <<"Analisis_Ventas">> ELSE <<>>

\* the loop "for col in stock_cols" of lines 154-158: the first column with
\* a row <= 5 is written and ends the loop; a text column met before raises
RECURSIVE stock_bajo_alerta(_, _)
stock_bajo_alerta(d, cols) ==
    IF cols = <<>> THEN Ok(<<>>)
    ELSE IF HasText(d, cols[1]) THEN Raise("TypeError", "_create_stock_analysis_sheet")
    ELSE IF rows_at_most_5(d, cols[1]) # <<>> THEN Ok(rows_at_most_5(d, cols[1]))
    ELSE stock_bajo_alerta(d, Tail(cols))

_create_stock_analysis_sheet(d) ==
    LET stock == ColsWhere(d, MatchTable["stock"] \cup MatchTable["inventario"])
        low == stock_bajo_alerta(d, stock)
    IN  IF ~(\E j \in 1..Len(stock) : d.dtypes[stock[j]] = "number")
        THEN Ok([sheets |-> <<>>, rows |-> <<>>])
        ELSE IF ~low.ok THEN low
        ELSE Ok([sheets |-> <<"Analisis_Stock">>
                            \o (IF low.val # <<>> THEN <<"Stock_Bajo_Alerta">> ELSE <<>>),
                 rows |-> low.val])

\* the alert rows: STOCK BAJO for the rows <= 5 of the first "stock" column,
\* SIN VENTAS for the first 20 rows with 0 in the first "vent" column, one
\* RECOMENDACION per recommendation
_create_alerts_sheet(d, recommendations) ==
    LET stock == ColsWhere(d, MatchTable["stock"])
        sales == ColsWhere(d, MatchTable["vent"])
        low_stock == IF stock = <<>> THEN <<>> ELSE rows_at_most_5(d, stock[1])
        no_sales == IF sales = <<>> THEN <<>>
                    ELSE SelectSeq([r \in 1..NRows(d) |-> r],
                                   LAMBDA r : Cell(d, r, sales[1]) = Num(0))
        alerts_data ==
            [j \in 1..Len(low_stock) |-> [Tipo |-> "STOCK BAJO", row |-> low_stock[j]]]
            \o [j \in 1..(IF Len(no_sales) < 20 THEN Len(no_sales) ELSE 20) |->
                    [Tipo |-> "SIN VENTAS", row |-> no_sales[j]]]
            \o [j \in 1..Len(recommendations) |-> [Tipo |-> "RECOMENDACION", row |-> 0]]
    IN  IF stock # <<>> /\ HasText(d, stock[1])
        THEN Raise("TypeError", "_create_alerts_sheet")
        ELSE Ok([sheets |-> IF alerts_data # <<>> THEN <<"Alertas_Recomendaciones">>
                            ELSE <<>>,
                 rows |-> alerts_data])

\* one metrics row per numeric and per object column
_create_metrics_sheet(d) ==
    IF numeric_cols(d) \o object_cols(d) # <<>> THEN <<"Metricas_Detalladas">> ELSE <<>>

_generate_excel_report(d, recommendations) ==
    LET stock == _create_stock_analysis_sheet(d)
        alerts == _create_alerts_sheet(d, recommendations)
    IN  IF ~stock.ok THEN stock
        ELSE IF ~alerts.ok THEN alerts
        ELSE Ok([sheets |-> <<"Datos_Originales", "Resumen_Ejecutivo">>
                            \o _create_sales_analysis_sheet(d)
                            \o stock.val.sheets
                            \o alerts.val.sheets
                            \o _create_metrics_sheet(d),
                 Stock_Bajo_Alerta |-> stock.val.rows,
                 alerts |-> alerts.val.rows])

(***************************************************************************)
(* DataVisualizer.create_stock_analysis_plots (src/src/visualization.py),  *)
(* called with the position of a stock column and no sales column.         *)
(***************************************************************************)
create_stock_analysis_plots(d, stock_col) ==
    IF HasText(d, stock_col) THEN Raise("TypeError", "create_stock_analysis_plots")
    ELSE Ok([plots |-> <<"stock_distribution">>
                       \o (IF rows_at_most_5(d, stock_col) # <<>>
                           THEN <<"low_stock_alert">> ELSE <<>>),
             low_stock_alert |-> rows_at_most_5(d, stock_col)])

(***************************************************************************)
(* DataVisualizer.create_trend_analysis, called without a date column: the *)
(* column is looked up by _find_date_column.  A converted cell is a date   *)
(* (k = "date") or NaT, which is a missing value.                          *)
(***************************************************************************)
date_keywords == {"fecha", "date", "periodo", "mes", "dia"}

\* '/' in str(x) or '-' in str(x)
looks_like_date(x) == x.k = "str" /\ (Contains("/", x.s) \/ Contains("-", x.s))

\* <<c>> for the column found, <<>> for None: the first column whose name
\* contains a date keyword, else the first object column with a '/' or a '-'
\* in one of its first 10 values
_find_date_column(d) ==
    LET named == ColsWhere(d, UNION {MatchTable[kw] : kw \in date_keywords})
        sample(c) == LET present == SelectSeq([r \in 1..NRows(d) |-> r],
                                             LAMBDA r : ~IsNull(Cell(d, r, c)))
                     IN  SubSeq(present, 1, IF Len(present) < 10 THEN Len(present) ELSE 10)
        looking == SelectSeq(object_cols(d),
                             LAMBDA c : \E j \in 1..Len(sample(c)) :
                                            looks_like_date(Cell(d, sample(c)[j], c)))
    IN  IF named # <<>> THEN <<named[1]>>
        ELSE IF looking # <<>> THEN <<looking[1]>>
        ELSE <<>>

\* the texts pd.to_datetime parses
ParsableDates == {"2024-01-05", "2024-02-10"}

\* pd.to_datetime(x, errors='coerce') of one cell: a text that is no date
\* becomes NaT, a number is taken as a time stamp
to_datetime(x) ==
    IF x.k = "str" /\ x.s \in ParsableDates THEN [k |-> "date", v |-> 0, s |-> x.s]
    ELSE IF x.k = "num" THEN [k |-> "date", v |-> x.v, s |-> ""]
    ELSE IF x.k = "date" THEN x
    ELSE NaN

\* the caller's frame after the call: line 190 assigns the converted column
\* to df[date_col], the frame passed in
df_after_create_trend_analysis(d, value_col) ==
    LET date_col == _find_date_column(d)
    IN  IF date_col = <<>> \/ value_col = 0 THEN d
        ELSE [d EXCEPT !.dtypes[date_col[1]] = "datetime",
                       !.rows = [r \in 1..NRows(d) |->
                                    [d.rows[r] EXCEPT ![date_col[1]] =
                                        to_datetime(d.rows[r][date_col[1]])]]]

\* the figure is drawn when a row has both a date and a value; value_col = 0
\* stands for None
create_trend_analysis(d, value_col) ==
    LET date_col == _find_date_column(d)
        after == df_after_create_trend_analysis(d, value_col)
        df_trend == {r \in 1..NRows(d) :
                        /\ ~IsNull(Cell(after, r, date_col[1]))
                        /\ ~IsNull(Cell(after, r, value_col))}
    IN  IF date_col = <<>> \/ value_col = 0 THEN Ok([fig |-> FALSE])
        ELSE Ok([fig |-> df_trend # {}])

(***************************************************************************)
(* The tables the analyzer is constructed on.  Every family is a column    *)
(* layout and the kinds of row it may hold; a table is any sequence of at  *)
(* most MaxRows such rows, so order and repetition vary freely.  The       *)
(* tables of the documented examples are added as they stand.              *)
(***************************************************************************)
SeqsUpTo(S, n) == UNION {[1..m -> S] : m \in 0..n}

\* (sales, stock) of the pharmacy rows: A, B, C are the rows of the
\* end-to-end scenario
PharmacyRows(lab1, lab2) ==
    {<<Str("A"), Str(lab1), Num(10), Num(2)>>,
     <<Str("B"), Str(lab2), Num(0), Num(0)>>,
     <<Str("C"), Str(lab1), Num(5), Num(50)>>,
     <<Str("D"), Str(lab2), Num(5), Num(-1)>>,
     <<Str("E"), Str(lab1), Num(10), Num(0)>>,
     <<Str("F"), Str(lab2), NaN, Num(5)>>}

Layouts ==
    {[columns |-> <<"Product", "Laboratory", "Cajas Vend. Total", "Cajas Stock Total">>,
      dtypes |-> <<"object", "object", "number", "number">>,
      kinds |-> PharmacyRows("LabX", "LabY")],
     [columns |-> <<"Producto", "Laboratorio", "Cajas Vend. Total", "Cajas Stock Total">>,
      dtypes |-> <<"object", "object", "number", "number">>,
      kinds |-> PharmacyRows("LabX", "LabY")],
     [columns |-> <<"Producto", "Stock">>,
      dtypes |-> <<"object", "number">>,
      kinds |-> {<<Str("A"), Num(-1)>>, <<Str("B"), Num(0)>>, <<Str("C"), Num(5)>>,
                 <<Str("D"), Num(6)>>, <<Str("E"), NaN>>}],
     [columns |-> <<"Producto", "Stock">>,
      dtypes |-> <<"object", "object">>,
      kinds |-> {<<Str("A"), Str("bajo")>>, <<Str("B"), Str("agotado")>>}],
     [columns |-> <<"Producto", "Ventas">>,
      dtypes |-> <<"object", "number">>,
      kinds |-> {<<Str("A"), Num(0)>>, <<Str("B"), Num(5)>>}],
     [columns |-> <<"Producto", "Sales">>,
      dtypes |-> <<"object", "number">>,
      kinds |-> {<<Str("A"), Num(0)>>, <<Str("B"), Num(5)>>}],
     [columns |-> <<"Producto">>,
      dtypes |-> <<"object">>,
      kinds |-> {<<Str("A")>>}],
     [columns |-> <<"Producto", "Ventas", "Stock">>,
      dtypes |-> <<"object", "number", "number">>,
      kinds |-> {<<Str("A"), Num(0), Num(2)>>, <<Str("B"), Num(5), Num(50)>>,
                 <<Str("C"), NaN, Num(3)>>, <<Str("D"), Num(0), Num(-1)>>}],
     [columns |-> <<"Producto", "Ventas", "Stock">>,
      dtypes |-> <<"object", "number", "object">>,
      kinds |-> {<<Str("A"), Num(0), Str("bajo")>>, <<Str("B"), NaN, Str("agotado")>>}],
     [columns |-> <<"Producto", "Ventas", "Sales">>,
      dtypes |-> <<"object", "number", "number">>,
      kinds |-> {<<Str("A"), Num(0), Num(1)>>, <<Str("B"), Num(5), Num(0)>>}],
     [columns |-> <<"Producto", "Ventas", "Sales">>,
      dtypes |-> <<"object", "object", "number">>,
      kinds |-> {<<Str("A"), Str("n/d"), Num(0)>>, <<Str("B"), Str("n/d"), Num(5)>>}],
     [columns |-> <<"Producto", "Ventas">>,
      dtypes |-> <<"object", "object">>,
      kinds |-> {<<Str("A"), Str("n/d")>>, <<Str("B"), Str("agotado")>>}],
     [columns |-> <<"Producto", "Fecha", "Ventas">>,
      dtypes |-> <<"object", "object", "number">>,
      kinds |-> {<<Str("A"), Str("2024-01-05"), Num(5)>>, <<Str("B"), Str("n/d"), Num(0)>>}]}

ScenarioColumns == <<"Product", "Laboratory", "Cajas Vend. Total", "Cajas Stock Total">>

\* the end-to-end table: (A, LabX, 10, 2), (B, LabY, 0, 0), (C, LabX, 5, 50)
ScenarioTable ==
    [columns |-> ScenarioColumns,
     dtypes |-> <<"object", "object", "number", "number">>,
     rows |-> << <<Str("A"), Str("LabX"), Num(10), Num(2)>>,
                 <<Str("B"), Str("LabY"), Num(0), Num(0)>>,
                 <<Str("C"), Str("LabX"), Num(5), Num(50)>> >>]

\* the low-stock boundary table: the stock column [-1, 0, 5, 6]
BoundaryStockTable ==
    [columns |-> <<"Producto", "Stock">>,
     dtypes |-> <<"object", "number">>,
     rows |-> << <<Str("A"), Num(-1)>>, <<Str("B"), Num(0)>>,
                 <<Str("C"), Num(5)>>, <<Str("D"), Num(6)>> >>]

\* the 30% boundary tables: ten rows, the first zeros of them with 0 sales
TenRowSales(name, zeros) ==
    [columns |-> <<"Producto", name>>,
     dtypes |-> <<"object", "number">>,
     rows |-> [r \in 1..10 |-> IF r <= zeros THEN <<Str("A"), Num(0)>>
                               ELSE <<Str("B"), Num(5)>>]]

\* thirteen rows of sales, most of them 10: the quartiles are both 10, so
\* every other value is outside the IQR fences
ThirteenRowSales(values) ==
    [columns |-> <<"Producto", "Ventas">>,
     dtypes |-> <<"object", "number">>,
     rows |-> [r \in 1..13 |-> <<Str("A"), Num(values[r])>>]]

\* rows 1, 3, 5 sell 0 and rows 7, 9, 11 sell 20: six rows are IQR-flagged
SixOutliersTable ==
    ThirteenRowSales([r \in 1..13 |-> IF r \in {1, 3, 5} THEN 0
                                      ELSE IF r \in {7, 9, 11} THEN 20 ELSE 10])

\* row 13 sells 1000: its z-score is sqrt(12) > 3
SpikeTable == ThirteenRowSales([r \in 1..13 |-> IF r = 13 THEN 1000 ELSE 10])

\* pd.DataFrame(): no column and no row
NoColumnsTable == [columns |-> <<>>, dtypes |-> <<>>, rows |-> <<>>]

ExampleTables ==
    {BoundaryStockTable, SixOutliersTable, SpikeTable, NoColumnsTable}
    \cup {TenRowSales(name, zeros) :
             name \in {"Ventas", "Sales", "Cajas Vend. Total"}, zeros \in {3, 4}}

Tables ==
    UNION {{[columns |-> L.columns, dtypes |-> L.dtypes, rows |-> rs] :
               rs \in SeqsUpTo(L.kinds, MaxRows)} : L \in Layouts}
    \cup ExampleTables

\* the thresholds _identify_low_stock is called with
Thresholds == {-1, 0, DefaultThreshold, DefaultThreshold + 1}

\* column lists for the resolver: at most MaxCols distinct names
ColumnNames ==
    {"Product", "Laboratory", "Cajas Vend. Total", "Cajas Stock Total",
     "Laboratorio", "Rubro", "Ventas", "Sales", "Inventario", "Notas"}

ColumnLists ==
    {cs \in SeqsUpTo(ColumnNames, MaxCols) :
        \A i, j \in 1..Len(cs) : i # j => cs[i] # cs[j]}

HeaderTable(cs) == [columns |-> cs, dtypes |-> [i \in 1..Len(cs) |-> "object"], rows |-> <<>>]

(***************************************************************************)
(* State: df is the DataFrame the loader or analyzer holds (self.df);      *)
(* mapping is what get_column_mapping last returned; last is the outcome   *)
(* of the most recent call on the analyzer and prev the outcome of the     *)
(* call before it when that was the same call (NoCall otherwise).          *)
(* analyzers is the sequence of DataAnalyzer objects of the analyses that  *)
(* run in parallel, each with its own table, the method it runs, its       *)
(* position in the method, the local dict "analysis" and its outcome.      *)
(* file is the file a DataLoader is pointed at and loader the DataLoader   *)
(* (its df and metadata); disk is temp_data.csv in the dashboard's working *)
(* directory and sessions the dashboard sessions; console is the run of    *)
(* the console front end.                                                  *)
(***************************************************************************)
NoCall == [op |-> "none", arg |-> 0, out |-> Ok(<<>>)]

\* the front ends at rest: no file chosen, a loader that has loaded nothing,
\* no temp_data.csv, no dashboard session, no console run
NoFile == [exists |-> FALSE]
EmptyContent == [first_line |-> "", rows |-> <<>>]
NoTempFile == [exists |-> FALSE, content |-> EmptyContent]
None == [none |-> TRUE]
NewLoader == [df |-> None, metadata |-> <<>>]
NoConsole == [pc |-> "none", csv_files |-> <<>>, text |-> "", file |-> "", printed |-> ""]

Idle ==
    /\ file = NoFile
    /\ loader = NewLoader
    /\ disk = NoTempFile
    /\ sessions = <<>>
    /\ console = NoConsole
NoMapping == [done |-> FALSE, roles |-> <<>>]

Init ==
    /\ df \in Tables
    /\ mapping = NoMapping
    /\ prev = NoCall
    /\ last = NoCall
    /\ analyzers = <<>>
    /\ Idle

InitResolver ==
    /\ df \in {HeaderTable(cs) : cs \in ColumnLists}
    /\ mapping = NoMapping
    /\ prev = NoCall
    /\ last = NoCall
    /\ analyzers = <<>>
    /\ Idle

\* a plausible slip: self.df = self.df[low_stock_mask].sort_values(...)
df_filtered_in_place(d, threshold) ==
    LET out == _identify_low_stock(d, threshold)
    IN  IF out.ok /\ out.val.columns # <<>>
        THEN [d EXCEPT !.rows = [j \in 1..Len(out.val.index) |-> d.rows[out.val.index[j]]]]
        ELSE d

\* self.df after _identify_low_stock: indexing by the mask and sort_values
\* (no inplace=True) build new frames, self.df is not assigned
df_after_identify_low_stock(d, threshold) == d

Call(op, arg, out) ==
    /\ prev' = IF last.op = op /\ last.arg = arg THEN last ELSE NoCall
    /\ last' = [op |-> op, arg |-> arg, out |-> out]
    /\ UNCHANGED <<mapping, analyzers, file, loader, disk, sessions, console>>

GetBasicStatistics ==
    /\ Call("_get_basic_statistics", 0, _get_basic_statistics(df))
    /\ UNCHANGED df

AnalyzeSales ==
    /\ Call("_analyze_sales", 0, _analyze_sales(df))
    /\ UNCHANGED df

AnalyzeInventory ==
    /\ Call("_analyze_inventory", 0, _analyze_inventory(df))
    /\ df' = df_after_identify_low_stock(df, DefaultThreshold)

IdentifyLowStock ==
    \E threshold \in Thresholds :
        /\ Call("_identify_low_stock", threshold, _identify_low_stock(df, threshold))
        /\ df' = df_after_identify_low_stock(df, threshold)

DetectAnomalies ==
    /\ Call("_detect_anomalies", 0, _detect_anomalies(df))
    /\ UNCHANGED df

GenerateRecommendations ==
    /\ Call("_generate_recommendations", 0, _generate_recommendations(df))
    /\ df' = df_after_identify_low_stock(df, DefaultThreshold)

ComprehensiveAnalysis ==
    /\ Call("comprehensive_analysis", 0, comprehensive_analysis(df))
    /\ df' = IF _analyze_sales(df).ok
             THEN df_after_identify_low_stock(df, DefaultThreshold)
             ELSE df

AnalyzeProductRotation ==
    /\ Call("_analyze_product_rotation", 0, _analyze_product_rotation(df))
    /\ UNCHANGED df

\* analysis_results is {} or holds the recommendations of the analyzer
GenerateExcelReport ==
    \E analysed \in BOOLEAN :
        LET recs == _generate_recommendations(df)
            recommendations == IF analysed /\ recs.ok THEN recs.val ELSE <<>>
        IN  /\ Call("_generate_excel_report", IF analysed THEN 1 ELSE 0,
                    _generate_excel_report(df, recommendations))
            /\ UNCHANGED df

CreateStockAnalysisPlots ==
    /\ stock_cols(df) # <<>>
    /\ Call("create_stock_analysis_plots", stock_cols(df)[1],
            create_stock_analysis_plots(df, stock_cols(df)[1]))
    /\ UNCHANGED df

CreateTrendAnalysis ==
    \E value_col \in {0} \cup Elems(numeric_cols(df)) :
        /\ Call("create_trend_analysis", value_col, create_trend_analysis(df, value_col))
        /\ df' = df_after_create_trend_analysis(df, value_col)

GetColumnMapping ==
    /\ mapping' = [done |-> TRUE, roles |-> get_column_mapping(df.columns)]
    /\ UNCHANGED <<df, prev, last, analyzers, file, loader, disk, sessions, console>>

Next ==
    \/ GetBasicStatistics
    \/ AnalyzeSales
    \/ AnalyzeInventory
    \/ IdentifyLowStock
    \/ DetectAnomalies
    \/ GenerateRecommendations
    \/ ComprehensiveAnalysis
    \/ AnalyzeProductRotation
    \/ GenerateExcelReport
    \/ CreateStockAnalysisPlots
    \/ CreateTrendAnalysis

NextResolver == GetColumnMapping

Spec == Init /\ [][Next]_vars

SpecResolver == InitResolver /\ [][NextResolver]_vars

(***************************************************************************)
(* Analyses in parallel: two DataAnalyzer objects, each constructed on its *)
(* own table, each running one method.  comprehensive_analysis advances    *)
(* one statement of lines 20-25 per step (pc is the section to compute     *)
(* next); every other method is one step.  The steps of the two analyses   *)
(* interleave freely.                                                      *)
(***************************************************************************)
Sections == <<"basic_stats", "sales_analysis", "inventory_analysis", "trends",
              "anomalies", "recommendations">>

\* the right-hand side of the statement that fills section k
Section(k, d) ==
    CASE k = 1 -> _get_basic_statistics(d)
      [] k = 2 -> _analyze_sales(d)
      [] k = 3 -> _analyze_inventory(d)
      [] k = 4 -> AttributeError("_detect_trends")
      [] k = 5 -> _detect_anomalies(d)
      [] k = 6 -> _generate_recommendations(d)

Methods == {"comprehensive_analysis", "_get_basic_statistics", "_analyze_sales",
            "_analyze_inventory", "_identify_low_stock", "_detect_anomalies",
            "_generate_recommendations"}

\* a method run on its own on the table d
RunAlone(method, d) ==
    CASE method = "comprehensive_analysis" -> comprehensive_analysis(d)
      [] method = "_get_basic_statistics" -> _get_basic_statistics(d)
      [] method = "_analyze_sales" -> _analyze_sales(d)
      [] method = "_analyze_inventory" -> _analyze_inventory(d)
      [] method = "_identify_low_stock" -> _identify_low_stock(d, DefaultThreshold)
      [] method = "_detect_anomalies" -> _detect_anomalies(d)
      [] method = "_generate_recommendations" -> _generate_recommendations(d)

\* the tables of the parallel analyses: one per outcome of the methods
ParallelTables ==
    {ScenarioTable, BoundaryStockTable, SixOutliersTable,
     [columns |-> <<"Producto", "Stock">>, dtypes |-> <<"object", "object">>,
      rows |-> << <<Str("A"), Str("bajo")>> >>],
     [columns |-> <<"Producto", "Stock">>, dtypes |-> <<"object", "number">>,
      rows |-> << <<Str("C"), Num(5)>>, <<Str("E"), NaN>> >>],
     [columns |-> <<"Producto", "Ventas", "Stock">>,
      dtypes |-> <<"object", "number", "number">>,
      rows |-> << <<Str("A"), Num(0), Num(2)>>, <<Str("C"), NaN, Num(3)>> >>],
     [columns |-> <<"Producto">>, dtypes |-> <<"object">>, rows |-> <<>>]}

NoOutcome == [ok |-> FALSE, exc |-> "", at |-> "", val |-> <<>>]

\* DataAnalyzer(dataframe) about to run method
NewAnalyzer(dataframe, method) ==
    [df |-> dataframe, method |-> method, pc |-> 1, analysis |-> <<>>, out |-> NoOutcome]

InitParallel ==
    /\ df = HeaderTable(<<>>)
    /\ mapping = NoMapping
    /\ prev = NoCall
    /\ last = NoCall
    /\ analyzers \in [1..2 -> {NewAnalyzer(d, m) : d \in ParallelTables, m \in Methods}]
    /\ Idle

\* a plausible slip: "DataAnalyzer.df = dataframe", a class attribute every
\* instance shares, holding the table of the analyzer constructed last
class_df(a, t) == a[Len(a)].df

\* self.df of analyzer t: the instance attribute __init__ sets
self_df(a, t) == a[t].df

\* one step of analyzer t
AnalysisStep(t) ==
    LET me == analyzers[t]
        d == self_df(analyzers, t)
        r == IF me.method = "comprehensive_analysis" THEN Section(me.pc, d)
             ELSE RunAlone(me.method, d)
        filled == [s \in DOMAIN me.analysis \cup {Sections[me.pc]} |->
                      IF s = Sections[me.pc] THEN r.val ELSE me.analysis[s]]
    IN  /\ me.pc # 0
        /\ analyzers' =
              [analyzers EXCEPT ![t] =
                  IF me.method # "comprehensive_analysis" \/ ~r.ok
                  THEN [me EXCEPT !.pc = 0, !.out = r]
                  ELSE IF me.pc < Len(Sections)
                  THEN [me EXCEPT !.pc = me.pc + 1, !.analysis = filled]
                  ELSE [me EXCEPT !.pc = 0, !.analysis = filled, !.out = Ok(filled)]]
        /\ UNCHANGED <<df, mapping, prev, last, file, loader, disk, sessions, console>>

Step == \E t \in DOMAIN analyzers : AnalysisStep(t)

NextParallel == Step

SpecParallel == InitParallel /\ [][NextParallel]_vars

(***************************************************************************)
(* DataLoader (src/src/data_loader.py): validate_file, detect_delimiter,   *)
(* smart_load, _post_process_dataframe, _extract_metadata.                 *)
(*                                                                         *)
(* A file is a record: its name, whether it exists, its size in bytes,     *)
(* whether its bytes can be decoded, its first line (CSV) or the cells of  *)
(* its header row (Excel), and its data rows.  A data row is "data" (a     *)
(* text in the first column, the other cells empty) or "empty" (every cell *)
(* empty).                                                                 *)
(***************************************************************************)
SUPPORTED_FORMATS == <<".csv", ".xlsx", ".xls">>
MAX_FILE_SIZE_MB == 100
BytesPerMB == 1048576

\* Path(file_path).suffix: from the last dot of the name on, "" when the
\* name has no dot after its first character
suffix(name) ==
    LET dots == {i \in 2..Len(name) : SubSeq(name, i, i) = "."}
    IN  IF dots = {} THEN ""
        ELSE SubSeq(name, CHOOSE i \in dots : \A j \in dots : j <= i, Len(name))

\* a plausible slip: the format is tested before the existence
validate_file_suffix_first(f) ==
    IF lower(suffix(f.name)) \notin Elems(SUPPORTED_FORMATS)
    THEN Raise("ValueError", "validate_file: format")
    ELSE IF ~f.exists THEN Raise("FileNotFoundError", "validate_file: exists")
    ELSE IF f.size > MAX_FILE_SIZE_MB * BytesPerMB
    THEN Raise("ValueError", "validate_file: size")
    ELSE Ok(TRUE)

validate_file(f) ==
    IF ~f.exists THEN Raise("FileNotFoundError", "validate_file: exists")
    ELSE IF lower(suffix(f.name)) \notin Elems(SUPPORTED_FORMATS)
    THEN Raise("ValueError", "validate_file: format")
    ELSE IF f.size > MAX_FILE_SIZE_MB * BytesPerMB
    THEN Raise("ValueError", "validate_file: size")
    ELSE Ok(TRUE)

delimiters == <<",", ";", "\t", "|">>

\* len(first_line.split(delimiter))
column_count(line, delimiter) ==
    Cardinality({i \in 1..Len(line) : SubSeq(line, i, i) = delimiter}) + 1

\* a plausible slip: >= lets a later delimiter win a tie
better_or_equal(count, max_columns) == count >= max_columns /\ count > 1

\* column_count > max_columns and column_count > 1
better(count, max_columns) == count > max_columns /\ count > 1

detect_delimiter(f) ==
    LET RECURSIVE loop(_, _, _)
        loop(k, best_delimiter, max_columns) ==
            IF k > Len(delimiters) THEN best_delimiter
            ELSE LET count == column_count(f.first_line, delimiters[k])
                 IN  IF better(count, max_columns)
                     THEN loop(k + 1, delimiters[k], count)
                     ELSE loop(k + 1, best_delimiter, max_columns)
    IN  IF ~f.exists \/ ~f.readable THEN "," ELSE loop(1, ",", 0)

\* line.split(sep)
RECURSIVE split(_, _)
split(line, sep) ==
    LET at == {i \in 1..Len(line) : SubSeq(line, i, i) = sep}
    IN  IF at = {} THEN <<line>>
        ELSE LET i == CHOOSE i \in at : \A j \in at : i <= j
             IN  <<SubSeq(line, 1, i - 1)>> \o split(SubSeq(line, i + 1, Len(line)), sep)

\* the column names pandas gives a header row: an empty cell is
\* "Unnamed: <position>", a repeated name gets ".<n>"
header_names(cells) ==
    [k \in 1..Len(cells) |->
        LET earlier == Cardinality({j \in 1..(k - 1) : cells[j] = cells[k]})
        IN  IF cells[k] = "" THEN "Unnamed: " \o ToString(k - 1)
            ELSE IF earlier > 0 THEN cells[k] \o "." \o ToString(earlier)
            ELSE cells[k]]

\* the DataFrame of a header and data rows: without rows every column is
\* object; a column with a text is object, a column of empty cells float64
frame(names, kinds) ==
    [columns |-> names,
     dtypes  |-> [c \in 1..Len(names) |->
                    IF kinds = <<>> \/ (c = 1 /\ "data" \in Elems(kinds))
                    THEN "object" ELSE "number"],
     rows    |-> [r \in 1..Len(kinds) |->
                    [c \in 1..Len(names) |->
                        IF c = 1 /\ kinds[r] = "data" THEN Str("x") ELSE NaN]]]

\* pd.read_csv(file_path, encoding=encoding, sep=delimiter, engine='python')
read_csv(f, sep) ==
    IF ~f.readable THEN Raise("UnicodeDecodeError", "read_csv")
    ELSE IF f.first_line = "" THEN Raise("EmptyDataError", "read_csv")
    ELSE Ok(frame(header_names(split(f.first_line, sep)), f.rows))

\* pd.read_excel(file_path)
read_excel(f) ==
    IF ~f.readable THEN Raise("ValueError", "read_excel")
    ELSE Ok(frame(header_names(f.headers), f.rows))

Whitespace == {" ", "\t", "\n"}

\* str.strip()
RECURSIVE strip(_)
strip(s) ==
    IF Len(s) = 0 THEN s
    ELSE IF SubSeq(s, 1, 1) \in Whitespace THEN strip(SubSeq(s, 2, Len(s)))
    ELSE IF SubSeq(s, Len(s), Len(s)) \in Whitespace THEN strip(SubSeq(s, 1, Len(s) - 1))
    ELSE s

\* df.columns.str.strip(); df.dropna(how='all'); df.reset_index(drop=True)
_post_process_dataframe(d) ==
    [columns |-> [c \in 1..NCols(d) |-> strip(d.columns[c])],
     dtypes  |-> d.dtypes,
     rows    |-> SelectSeq(d.rows, LAMBDA row : \E c \in 1..NCols(d) : ~IsNull(row[c]))]

\* _extract_metadata: _analyze_columns reads self.df[col].dtype, and
\* self.df[col] is a DataFrame, which has no dtype, when two columns are
\* named col
_extract_metadata(d) ==
    IF \E i, j \in 1..NCols(d) : i < j /\ d.columns[i] = d.columns[j]
    THEN Raise("AttributeError", "_analyze_columns")
    ELSE Ok([shape |-> <<NRows(d), NCols(d)>>, columns |-> d.columns])

\* smart_load on the loader l: the loader afterwards and the outcome
smart_load(l, f) ==
    LET valid == validate_file(f)
        sfx   == lower(suffix(f.name))
        read  == IF sfx = ".csv" THEN read_csv(f, detect_delimiter(f))
                 ELSE IF sfx \in {".xlsx", ".xls"} THEN read_excel(f)
                 ELSE Raise("ValueError", "smart_load")
    IN  IF ~valid.ok THEN [loader |-> l, out |-> valid]
        ELSE IF ~read.ok THEN [loader |-> l, out |-> read]
        ELSE LET d    == _post_process_dataframe(read.val)
                 meta == _extract_metadata(d)
             IN  IF meta.ok
                 THEN [loader |-> [df |-> d, metadata |-> meta.val], out |-> Ok(d)]
                 ELSE [loader |-> [df |-> d, metadata |-> l.metadata], out |-> meta]

\* the files: every name, existence and size with one content, and every
\* first line of at most MaxLineLen characters with every choice of at most
\* MaxDataRows data rows
FileNames == {"ventas.csv", "VENTAS.CSV", "datos.xlsx", "datos.Xlsx", "viejo.xls",
              "notas.txt", "ventas.csv.bak", "LEEME"}
FileSizes == {0, MAX_FILE_SIZE_MB * BytesPerMB, MAX_FILE_SIZE_MB * BytesPerMB + 1}
LineChars == {"a", ",", ";", "\t", "|"}

RECURSIVE Lines(_)
Lines(n) ==
    IF n = 0 THEN {""}
    ELSE LET shorter == Lines(n - 1)
         IN  shorter \cup {s \o c : s \in shorter, c \in LineChars}

ExampleLines == {"Producto,Stock", "Stock, Stock", "Producto;Stock ;Stock",
                 " Producto | Stock ", "Producto;Ventas, total;Stock"}
ExampleHeaders == {<<"Producto", " Stock">>, <<"Stock", "Stock ">>,
                   <<"Producto", "Producto">>, <<"", "Stock">>}
RowKinds == SeqsUpTo({"data", "empty"}, MaxDataRows)

File(name, exists, size, readable, first_line, headers, rows) ==
    [name |-> name, exists |-> exists, size |-> size, readable |-> readable,
     first_line |-> first_line, headers |-> headers, rows |-> rows]

SampleFile == File("ventas.csv", TRUE, 0, TRUE, "Producto,Stock", <<>>, <<"data">>)

Files ==
    {File(n, e, z, TRUE, "Producto,Stock", <<"Producto", " Stock">>, <<"data">>) :
        n \in FileNames, e \in BOOLEAN, z \in FileSizes}
    \cup {File("ventas.csv", TRUE, 0, TRUE, l, <<>>, k) :
            l \in Lines(MaxLineLen) \cup ExampleLines, k \in RowKinds}
    \cup {File("datos.xlsx", TRUE, 0, TRUE, "", h, k) : h \in ExampleHeaders, k \in RowKinds}
    \cup {File(n, TRUE, 0, FALSE, "Producto,Stock", <<"Producto">>, <<"data">>) :
            n \in {"ventas.csv", "datos.xlsx"}}

\* a loader that has loaded SampleFile before
LoadedLoader == smart_load(NewLoader, SampleFile).loader

InitLoader ==
    /\ df = [columns |-> <<>>, dtypes |-> <<>>, rows |-> <<>>]
    /\ mapping = NoMapping
    /\ prev = NoCall
    /\ last = NoCall
    /\ analyzers = <<>>
    /\ file \in Files
    /\ loader \in {NewLoader, LoadedLoader}
    /\ disk = NoTempFile
    /\ sessions = <<>>
    /\ console = NoConsole

LoaderCall(op, out, l) ==
    /\ prev' = IF last.op = op THEN last ELSE NoCall
    /\ last' = [op |-> op, arg |-> 0, out |-> out]
    /\ loader' = l
    /\ UNCHANGED <<df, mapping, analyzers, file, disk, sessions, console>>

ValidateFile == LoaderCall("validate_file", validate_file(file), loader)

DetectDelimiter == LoaderCall("detect_delimiter", Ok(detect_delimiter(file)), loader)

SmartLoad ==
    LET r == smart_load(loader, file)
    IN  LoaderCall("smart_load", r.out, r.loader)

NextLoader == ValidateFile \/ DetectDelimiter \/ SmartLoad

SpecLoader == InitLoader /\ [][NextLoader]_vars

(***************************************************************************)
(* The dashboard (src/app.py, main lines 35-53 and 94-96).  Every session  *)
(* runs main in the same working directory: it writes its upload to        *)
(* temp_data.csv, loads temp_data.csv with a new DataLoader, and removes   *)
(* the file if it exists.  disk is temp_data.csv; a content is the first   *)
(* line and the data rows of a CSV file.  The with block of lines 36-37 is *)
(* one step, smart_load is one step, and os.path.exists and os.remove are  *)
(* one step each.                                                          *)
(***************************************************************************)
Uploads == {[first_line |-> "Producto,Stock", rows |-> <<"data">>],
            [first_line |-> "Producto;Ventas;Stock", rows |-> <<"data", "data">>],
            EmptyContent}

\* temp_data.csv as the loader reads it
TempFile(d) == File("temp_data.csv", d.exists, 0, TRUE, d.content.first_line, <<>>, d.content.rows)

\* uploaded_file is not None, before line 36
NewSession(upload) == [pc |-> "write", upload |-> upload, df |-> None, out |-> Ok(<<>>)]

InitDashboard ==
    /\ df = [columns |-> <<>>, dtypes |-> <<>>, rows |-> <<>>]
    /\ mapping = NoMapping
    /\ prev = NoCall
    /\ last = NoCall
    /\ analyzers = <<>>
    /\ file = NoFile
    /\ loader = NewLoader
    /\ disk = NoTempFile
    /\ sessions \in [1..MaxSessions -> {NewSession(u) : u \in Uploads}]
    /\ console = NoConsole

SessionStep(t, session, d) ==
    /\ sessions' = [sessions EXCEPT ![t] = session]
    /\ disk' = d
    /\ UNCHANGED <<df, mapping, prev, last, analyzers, file, loader, console>>

\* lines 36-37: with open("temp_data.csv", "wb") as f: f.write(...)
WriteTemp(t) ==
    /\ sessions[t].pc = "write"
    /\ SessionStep(t, [sessions[t] EXCEPT !.pc = "load"],
                   [exists |-> TRUE, content |-> sessions[t].upload])

\* lines 47-48: loader = DataLoader(); df = loader.smart_load("temp_data.csv");
\* an exception goes to the handler of lines 94-96
LoadTemp(t) ==
    /\ sessions[t].pc = "load"
    /\ LET r == smart_load(NewLoader, TempFile(disk))
       IN  SessionStep(t, IF r.out.ok
                          THEN [sessions[t] EXCEPT !.pc = "exists", !.df = r.out.val]
                          ELSE [sessions[t] EXCEPT !.pc = "failed", !.out = r.out],
                       disk)

\* line 51: if os.path.exists("temp_data.csv")
ExistsTemp(t) ==
    /\ sessions[t].pc = "exists"
    /\ SessionStep(t, [sessions[t] EXCEPT !.pc = IF disk.exists THEN "remove" ELSE "done"],
                   disk)

\* line 52: os.remove("temp_data.csv")
RemoveTemp(t) ==
    /\ sessions[t].pc = "remove"
    /\ IF disk.exists
       THEN SessionStep(t, [sessions[t] EXCEPT !.pc = "done"], NoTempFile)
       ELSE SessionStep(t, [sessions[t] EXCEPT !.pc = "failed",
                                               !.out = Raise("FileNotFoundError", "os.remove")],
                        disk)

NextDashboard ==
    \/ \E t \in DOMAIN sessions : WriteTemp(t)
    \/ \E t \in DOMAIN sessions : LoadTemp(t)
    \/ \E t \in DOMAIN sessions : ExistsTemp(t)
    \/ \E t \in DOMAIN sessions : RemoveTemp(t)

SpecDashboard == InitDashboard /\ [][NextDashboard]_vars

(***************************************************************************)
(* The console front end (src/main.py, main lines 20-51).  The working     *)
(* directory holds cwd CSV files and the directory data holds data CSV     *)
(* files; the typed selection is a text.                                   *)
(***************************************************************************)
Digits == <<"0", "1", "2", "3", "4", "5", "6", "7", "8", "9">>

\* int(text): surrounding whitespace is dropped, then an optional sign and
\* at least one decimal digit; anything else is a ValueError
int(text) ==
    LET t      == strip(text)
        signed == Len(t) > 0 /\ SubSeq(t, 1, 1) \in {"+", "-"}
        body   == IF signed THEN SubSeq(t, 2, Len(t)) ELSE t
        RECURSIVE value(_)
        value(n) ==
            IF n = 0 THEN 0
            ELSE 10 * value(n - 1)
                 + (CHOOSE v \in 0..9 : Digits[v + 1] = SubSeq(body, n, n))
    IN  IF Len(body) = 0 \/ \E i \in 1..Len(body) : SubSeq(body, i, i) \notin Elems(Digits)
        THEN Raise("ValueError", "int")
        ELSE Ok(IF signed /\ SubSeq(t, 1, 1) = "-" THEN 0 - value(Len(body))
                ELSE value(Len(body)))

\* csv_files[i] of a Python list: positions -len..-1 count from the end
list_index(files, i) ==
    IF 0 <= i /\ i < Len(files) THEN Ok(files[i + 1])
    ELSE IF 0 - Len(files) <= i /\ i < 0 THEN Ok(files[Len(files) + i + 1])
    ELSE Raise("IndexError", "csv_files")

\* Path(dir).glob('*.csv') for a directory with n CSV files
glob(dir, n) == [k \in 1..n |-> dir \o "f" \o ToString(k) \o ".csv"]

\* the texts typed at the prompt: every integer around the listed range
\* and texts that are not decimal integers
Selections ==
    {ToString(k) : k \in (0 - MaxFiles - 1)..(MaxFiles + 1)}
    \cup {"", "abc", "2.0", " 2 ", "+1", "1a", "-"}

InitConsole ==
    /\ df = [columns |-> <<>>, dtypes |-> <<>>, rows |-> <<>>]
    /\ mapping = NoMapping
    /\ prev = NoCall
    /\ last = NoCall
    /\ analyzers = <<>>
    /\ file = NoFile
    /\ loader = NewLoader
    /\ disk = NoTempFile
    /\ sessions = <<>>
    /\ console \in {[pc |-> "glob", cwd |-> n, data |-> m, csv_files |-> <<>>,
                     text |-> "", file |-> "", printed |-> ""] :
                        n \in 0..MaxFiles, m \in 0..MaxFiles}

ConsoleStep(c) ==
    /\ console' = c
    /\ UNCHANGED <<df, mapping, prev, last, analyzers, file, loader, disk, sessions>>

\* lines 21-27: the CSV files of the working directory, else those of data
FindFiles ==
    /\ console.pc = "glob"
    /\ LET here      == glob("", console.cwd)
           csv_files == IF here = <<>> THEN glob("data/", console.data) ELSE here
       IN  ConsoleStep(IF csv_files = <<>>
                       THEN [console EXCEPT !.pc = "returned", !.printed = "no files"]
                       ELSE [console EXCEPT !.pc = "input", !.csv_files = csv_files])

\* lines 33-38: selected_file = csv_files[int(selection) - 1], with
\* ValueError and IndexError answered by the invalid-selection message
Select ==
    /\ console.pc = "input"
    /\ \E selection \in Selections :
        LET number   == int(selection)
            selected == IF number.ok THEN list_index(console.csv_files, number.val - 1)
                        ELSE number
        IN  ConsoleStep(IF selected.ok
                        THEN [console EXCEPT !.pc = "analyze", !.text = selection,
                                             !.file = selected.val]
                        ELSE [console EXCEPT !.pc = "returned", !.text = selection,
                                             !.printed = "invalid selection"])

\* lines 40-51: the selected file is loaded and analyzed
Analyze ==
    /\ console.pc = "analyze"
    /\ ConsoleStep([console EXCEPT !.pc = "returned", !.printed = "analyzed " \o console.file])

NextConsole == FindFiles \/ Select \/ Analyze

SpecConsole == InitConsole /\ [][NextConsole]_vars

(***************************************************************************)
(* Properties.                                                             *)
(***************************************************************************)
HasKind(recs, kind) == \E j \in 1..Len(recs) : recs[j].kind = kind

\* C1: for every well-formed table comprehensive_analysis returns a bundle
\* with the sections basic_stats, sales_analysis, inventory_analysis,
\* anomalies and recommendations, and never ends in an error.
C1_NeverRaises ==
    last.op = "comprehensive_analysis" =>
        /\ last.out.ok
        /\ {"basic_stats", "sales_analysis", "inventory_analysis", "anomalies",
            "recommendations"} \subseteq DOMAIN last.out.val

\* C2: with a numeric stock column, _identify_low_stock(t) returns exactly
\* the rows whose stock v satisfies 0 <= v <= t, each once: negative, larger
\* and missing stock are excluded, 0 and t are included; the column
\* [-1, 0, 5, 6] with t = 5 gives exactly {0, 5}.
C2_LowStockExact ==
    /\ (/\ last.op = "_identify_low_stock"
        /\ stock_cols(df) # <<>>
        /\ df.dtypes[stock_cols(df)[1]] = "number")
       => LET c == stock_cols(df)[1]
              want == {r \in 1..NRows(df) :
                          /\ Cell(df, r, c).k = "num"
                          /\ 0 <= Cell(df, r, c).v
                          /\ Cell(df, r, c).v <= last.arg}
          IN  /\ last.out.ok
              /\ Elems(last.out.val.index) = want
              /\ Len(last.out.val.index) = Cardinality(want)
    /\ (df = BoundaryStockTable /\ last.op = "_identify_low_stock" /\ last.arg = 5)
       => /\ last.out.ok
          /\ {Cell(df, r, 2).v : r \in Elems(last.out.val.index)} = {0, 5}
          /\ Len(last.out.val.index) = 2

\* C2 witness: the call with threshold 5 on the boundary table: the stock -1
\* is left out, the stock 0 and 5 are returned, the stock 6 is left out
C2_Witness ==
    /\ last.op = "_identify_low_stock"
    /\ last.arg = 5
    /\ df = BoundaryStockTable
    /\ last.out.ok
    /\ LET c == stock_cols(df)[1]
       IN  /\ \E r \in 1..NRows(df) :
                 Cell(df, r, c) = Num(-1) /\ r \notin Elems(last.out.val.index)
           /\ \E r \in 1..NRows(df) :
                 Cell(df, r, c) = Num(0) /\ r \in Elems(last.out.val.index)
           /\ \E r \in 1..NRows(df) :
                 Cell(df, r, c) = Num(5) /\ r \in Elems(last.out.val.index)
           /\ \E r \in 1..NRows(df) :
                 Cell(df, r, c) = Num(6) /\ r \notin Elems(last.out.val.index)

\* the columns a sales keyword names: the resolver's sales keywords and the
\* "vent"/"sales" test of _analyze_sales
SalesLikeCols(d) ==
    ColsWhere(d, {n \in KnownNames :
        \/ \E i \in 1..Len(COMMON_SALES_COLS["sales"]) :
               InLower(COMMON_SALES_COLS["sales"][i], n)
        \/ InLower("vent", n)
        \/ InLower("sales", n)})

ZerosIn(d, c) ==
    Cardinality({r \in 1..NRows(d) : Cell(d, r, c).k = "num" /\ Cell(d, r, c).v = 0})

\* C3: for every table with a sales-like column the rotation recommendation
\* is emitted if and only if the zeros of that column are strictly more than
\* 30% of the rows.
C3_RotationIffOver30 ==
    (/\ last.op = "_generate_recommendations"
     /\ last.out.ok
     /\ SalesLikeCols(df) # <<>>)
    => (HasKind(last.out.val, "rotation")
        <=> 10 * ZerosIn(df, SalesLikeCols(df)[1]) > 3 * NRows(df))

\* C4: on the end-to-end table the low-stock set at threshold 5 is {A, B}
\* and the recommendations hold both the restock and the rotation alert.
C4_Scenario ==
    /\ (df = ScenarioTable /\ last.op = "_identify_low_stock" /\ last.arg = 5)
       => /\ last.out.ok
          /\ {Cell(df, r, 1).s : r \in Elems(last.out.val.index)} = {"A", "B"}
    /\ (df = ScenarioTable /\ last.op = "_generate_recommendations")
       => /\ last.out.ok
          /\ HasKind(last.out.val, "restock")
          /\ HasKind(last.out.val, "rotation")

\* C5 as stated: the scenario's column list resolves product, category, sales
\* and stock to Product, Laboratory, Cajas Vend. Total and Cajas Stock Total.
C5_AllFourRoles ==
    (mapping.done /\ df.columns = ScenarioColumns)
    => /\ {"product", "category", "sales", "stock"} \subseteq DOMAIN mapping.roles
       /\ mapping.roles["product"] = "Product"
       /\ mapping.roles["category"] = "Laboratory"
       /\ mapping.roles["sales"] = "Cajas Vend. Total"
       /\ mapping.roles["stock"] = "Cajas Stock Total"

\* C5 (amended): the scenario's column list resolves exactly the three roles
\* product, sales and stock, to Product, Cajas Vend. Total and Cajas Stock
\* Total; the category role stays unresolved.
C5_ThreeRoles ==
    (mapping.done /\ df.columns = ScenarioColumns)
    => /\ DOMAIN mapping.roles = {"product", "sales", "stock"}
       /\ mapping.roles["product"] = "Product"
       /\ mapping.roles["sales"] = "Cajas Vend. Total"
       /\ mapping.roles["stock"] = "Cajas Stock Total"

\* C5 witness: the mapping of the scenario's column list has been computed
C5_Witness == mapping.done /\ df.columns = ScenarioColumns

MinOf(S) == CHOOSE x \in S : \A y \in S : x <= y

\* C6: every role some keyword matches resolves to the leftmost column that
\* contains the earliest keyword contained in any column; a column matching
\* only a later keyword is never preferred, wherever it stands.
C6_KeywordsOuter ==
    mapping.done =>
        \A r \in RoleSet :
            LET kws == COMMON_SALES_COLS[r]
                cols == df.columns
                K == {k \in 1..Len(kws) : \E i \in 1..Len(cols) : InLower(kws[k], cols[i])}
            IN  K # {} =>
                    /\ r \in DOMAIN mapping.roles
                    /\ mapping.roles[r] =
                           cols[MinOf({i \in 1..Len(cols) : InLower(kws[MinOf(K)], cols[i])})]

\* C6 witness: a role resolved to a column that stands right of a column
\* matching a later keyword of the same role
C6_Witness ==
    /\ mapping.done
    /\ \E r \in DOMAIN mapping.roles :
          LET kws == COMMON_SALES_COLS[r]
              cols == df.columns
          IN  \E i, j \in 1..Len(cols) :
                  /\ i < j
                  /\ mapping.roles[r] = cols[j]
                  /\ \E k \in 1..Len(kws) : InLower(kws[k], cols[i])

Unmatched(col) ==
    \A r \in RoleSet : \A k \in 1..Len(COMMON_SALES_COLS[r]) :
        ~InLower(COMMON_SALES_COLS[r][k], col)

RemoveAt(q, i) == SubSeq(q, 1, i - 1) \o SubSeq(q, i + 1, Len(q))

\* C7: removing a column that contains no keyword of any role leaves the
\* mapping as it was: the same roles resolved, each to the same column.
C7_RoleIndependence ==
    mapping.done =>
        \A i \in 1..Len(df.columns) :
            Unmatched(df.columns[i])
                => get_column_mapping(RemoveAt(df.columns, i)) = mapping.roles

\* C7 witness: a computed, non-empty mapping of a list whose first column is
\* matched by no keyword
C7_Witness ==
    /\ mapping.done
    /\ Len(df.columns) >= 2
    /\ Unmatched(df.columns[1])
    /\ DOMAIN mapping.roles # {}

C9_EveryTurnoverBucketed ==
    (last.op = "_analyze_product_rotation" /\ last.out.ok) =>
        \A r \in 1..Len(last.out.val.rows) :
            LET x == last.out.val.rows[r].rotacion
                e == last.out.val.rows[r].estado_rotacion
            IN  x.k = "num" =>
                    e = (IF 10 * x.num <= x.den THEN "Sin ventas"
                         ELSE IF 2 * x.num <= x.den THEN "Baja"
                         ELSE IF x.num <= x.den THEN "Media"
                         ELSE IF x.num <= 5 * x.den THEN "Alta"
                         ELSE "Muy Alta")

\* C10: a call repeated on the unmodified table has the outcome of the first
\* call: the same statistics, low-stock rows, anomaly counts and
\* recommendations, or the same error.
C10_Idempotent ==
    prev.op # "none" =>
        /\ prev.op = last.op
        /\ prev.arg = last.arg
        /\ prev.out.ok = last.out.ok
        /\ prev.out.exc = last.out.exc
        /\ prev.out.at = last.out.at
        /\ last.out.ok => prev.out.val = last.out.val

\* C10 witness: _generate_recommendations run a second time, the first run
\* having returned at least two recommendations
C10_Witness ==
    /\ prev.op = "_generate_recommendations"
    /\ prev.out.ok
    /\ Len(prev.out.val) >= 2
    /\ last.op = "_generate_recommendations"

\* C11: in every entry _detect_anomalies reports, the z-score count and the
\* IQR count are between 0 and the number of rows, and samples holds the
\* first IQR-flagged rows in table order, 5 of them at most.
C11_CountsAndSamples ==
    (last.op = "_detect_anomalies" /\ last.out.ok) =>
        \A j \in 1..Len(last.out.val) :
            LET e == last.out.val[j]
                c == ColumnPos(df, e.col)
                flagged == {r \in 1..NRows(df) :
                               iqr_outlier(dropna(df, c), Cell(df, r, c).v)}
            IN  /\ e.z_score_anomalies \in 0..NRows(df)
                /\ e.iqr_anomalies \in 0..NRows(df)
                /\ e.iqr_anomalies = Cardinality(flagged)
                /\ Len(e.samples) = (IF e.iqr_anomalies < 5 THEN e.iqr_anomalies ELSE 5)
                /\ \A i \in 1..Len(e.samples) : e.samples[i] \in flagged
                /\ \A i \in 1..(Len(e.samples) - 1) : e.samples[i] < e.samples[i + 1]
                /\ \A r \in flagged :
                       r \in Elems(e.samples)
                       \/ \A i \in 1..Len(e.samples) : e.samples[i] < r

\* C11 witness: the entry of a column with six IQR-flagged rows (1, 3, 5, 7,
\* 9, 11), of which the first five are the samples
C11_Witness ==
    /\ last.op = "_detect_anomalies"
    /\ last.out.ok
    /\ df = SixOutliersTable
    /\ \E j \in 1..Len(last.out.val) :
          /\ last.out.val[j].iqr_anomalies = 6
          /\ last.out.val[j].samples = <<1, 3, 5, 7, 9>>

\* C12: the list _generate_recommendations returns is the restock alert (if
\* the low-stock count is above 0), then the rotation alert (if the zero
\* sales are more than 30% of the rows), then the missing-values alert (if a
\* value is missing): each at most once, in this order, each present exactly
\* when its own condition holds, whatever the other two conditions are.
C12_OrderedIndependent ==
    (last.op = "_generate_recommendations" /\ last.out.ok) =>
        LET stock == ColsWhere(df, MatchTable["stock"])
            vent == ColsWhere(df, MatchTable["vent"])
            low == {r \in 1..NRows(df) :
                       /\ stock # <<>>
                       /\ Cell(df, r, stock[1]).k = "num"
                       /\ Cell(df, r, stock[1]).v \in 0..DefaultThreshold}
            zeros == {r \in 1..NRows(df) : vent # <<>> /\ Cell(df, r, vent[1]) = Num(0)}
            missing == {rc \in (1..NRows(df)) \X (1..NCols(df)) :
                           Cell(df, rc[1], rc[2]) = NaN}
            kinds == [j \in 1..Len(last.out.val) |-> last.out.val[j].kind]
        IN  kinds = (IF Cardinality(low) > 0 THEN <<"restock">> ELSE <<>>)
                    \o (IF 10 * Cardinality(zeros) > 3 * NRows(df)
                        THEN <<"rotation">> ELSE <<>>)
                    \o (IF Cardinality(missing) > 0 THEN <<"missing">> ELSE <<>>)

\* C12 witness: all three conditions hold and the three alerts are returned
\* in the order restock, rotation, missing
C12_Witness ==
    /\ last.op = "_generate_recommendations"
    /\ last.out.ok
    /\ Len(last.out.val) = 3
    /\ last.out.val[1].kind = "restock"
    /\ last.out.val[2].kind = "rotation"
    /\ last.out.val[3].kind = "missing"

\* the numeric columns of d that hold a missing value
ColsWithMissing(d) ==
    {c \in Elems(numeric_cols(d)) : \E r \in 1..NRows(d) : IsNull(Cell(d, r, c))}

\* C13: for a table with a numeric column that holds missing values,
\* _detect_anomalies does not end in an error and reports both outlier
\* counts for that column.
C13_MissingValuesNoError ==
    (last.op = "_detect_anomalies" /\ ColsWithMissing(df) # {}) =>
        /\ last.out.ok
        /\ \A c \in ColsWithMissing(df) :
               \E j \in 1..Len(last.out.val) :
                   /\ last.out.val[j].col = df.columns[c]
                   /\ last.out.val[j].z_score_anomalies \in 0..NRows(df)
                   /\ last.out.val[j].iqr_anomalies \in 0..NRows(df)

\* the first column whose name contains "stock" holds text
TextStock(d) ==
    /\ stock_cols(d) # <<>>
    /\ \E r \in 1..NRows(d) : Cell(d, r, stock_cols(d)[1]).k = "str"

\* C14: when the first stock column holds text, _identify_low_stock returns
\* an empty result without an error, and _generate_recommendations returns
\* without an error a list with no restock alert in which the rotation and
\* the missing-values rule are still evaluated.
C14_TextStockNoError ==
    /\ (last.op = "_identify_low_stock" /\ TextStock(df)) =>
           /\ last.out.ok
           /\ last.out.val.index = <<>>
    /\ (last.op = "_generate_recommendations" /\ TextStock(df)) =>
           /\ last.out.ok
           /\ ~HasKind(last.out.val, "restock")
           /\ HasKind(last.out.val, "missing") <=> missing_total(df) > 0
           /\ HasKind(last.out.val, "rotation")
                  <=> /\ vent_cols(df) # <<>>
                      /\ 10 * ZerosIn(df, vent_cols(df)[1]) > 3 * NRows(df)

\* C15: for every column list, the empty one included, get_column_mapping
\* returns a mapping whose keys are roles of the fixed role set; a role is a
\* key if and only if some column name contains one of its keywords, and
\* every value is one of the column names.
C15_MappingKeys ==
    mapping.done =>
        /\ DOMAIN mapping.roles \subseteq {"sales", "product", "category", "stock", "price"}
        /\ \A r \in DOMAIN COMMON_SALES_COLS :
               r \in DOMAIN mapping.roles
               <=> \E i \in 1..Len(df.columns) : \E k \in 1..Len(COMMON_SALES_COLS[r]) :
                       InLower(COMMON_SALES_COLS[r][k], df.columns[i])
        /\ \A r \in DOMAIN mapping.roles : mapping.roles[r] \in Elems(df.columns)

\* C15 witness: the mapping of a column list in which a column matches a
\* role and no column matches another role
C15_Witness ==
    /\ mapping.done
    /\ DOMAIN mapping.roles # {}
    /\ \E r \in RoleSet : r \notin DOMAIN mapping.roles
    /\ \E i \in 1..Len(df.columns) : Unmatched(df.columns[i])

\* C16: of two analyses interleaved in any way, each on its own table and
\* through its own DataAnalyzer, each ends with the outcome the same method
\* has when run alone on that table, and a step of one analysis changes
\* nothing of the other analyzer.
C16_ParallelIsolated ==
    /\ [](\A t \in DOMAIN analyzers :
              analyzers[t].pc = 0
                  => analyzers[t].out = RunAlone(analyzers[t].method, analyzers[t].df))
    /\ [][\A t, u \in DOMAIN analyzers :
              (t # u /\ analyzers'[t] # analyzers[t]) => analyzers'[u] = analyzers[u]]_vars

\* C16 witness: both analyses have ended, on tables that differ, the first
\* one a comprehensive_analysis that took several steps
C16_Witness ==
    /\ DOMAIN analyzers = 1..2
    /\ analyzers[1].pc = 0
    /\ analyzers[2].pc = 0
    /\ analyzers[1].df # analyzers[2].df
    /\ analyzers[1].method = "comprehensive_analysis"
    /\ analyzers[1].analysis # <<>>
    /\ analyzers[1].out # analyzers[2].out

\* C17: the category keywords are tried in the order laboratorio, categoria,
\* rubro, departamento: a column list holding both "Rubro" and "Laboratorio",
\* in either order, resolves the category role to "Laboratorio".
C17_LaboratorioFirst ==
    (/\ mapping.done
     /\ "Rubro" \in Elems(df.columns)
     /\ "Laboratorio" \in Elems(df.columns))
    => /\ "category" \in DOMAIN mapping.roles
       /\ mapping.roles["category"] = "Laboratorio"

\* the names of the numeric columns among the given positions, in order
NumericNames(d, cols) ==
    LET num == SelectSeq(cols, LAMBDA c : d.dtypes[c] = "number")
    IN  [j \in 1..Len(num) |-> d.columns[num[j]]]

\* C18: for a table with sales-like columns _analyze_sales returns, without
\* an error, one sub-report for every numeric one of them and none for a
\* non-numeric one.
C18_OneReportPerSalesColumn ==
    (last.op = "_analyze_sales" /\ sales_cols(df) # <<>>) =>
        /\ last.out.ok
        /\ [j \in 1..Len(last.out.val.cols) |-> last.out.val.cols[j].col]
               = NumericNames(df, sales_cols(df))

\* the rows a low-stock consumer may list: stock in [0, 5] in the first
\* column whose name contains "stock"
LowStockRows(d) ==
    {r \in 1..NRows(d) :
        /\ Cell(d, r, stock_cols(d)[1]).k = "num"
        /\ Cell(d, r, stock_cols(d)[1]).v \in 0..5}

\* C19: no consumer lists a row with negative stock as low-stock: the
\* analyzer's low-stock set, the report's STOCK BAJO alert rows, its sheet
\* Stock_Bajo_Alerta and the visualizer's low-stock plot all hold exactly
\* the rows of _identify_low_stock(5), those with stock in [0, 5].
C19_NegativeStockNeverLow ==
    /\ (/\ last.op = "_identify_low_stock" /\ last.arg = 5
        /\ last.out.ok /\ stock_cols(df) # <<>>)
       => Elems(last.out.val.index) = LowStockRows(df)
    /\ (last.op = "_generate_excel_report" /\ last.out.ok /\ stock_cols(df) # <<>>)
       => /\ {a.row : a \in {b \in Elems(last.out.val.alerts) : b.Tipo = "STOCK BAJO"}}
                = LowStockRows(df)
          /\ Elems(last.out.val.Stock_Bajo_Alerta) = LowStockRows(df)
    /\ (last.op = "create_stock_analysis_plots" /\ last.out.ok)
       => Elems(last.out.val.low_stock_alert) = LowStockRows(df)

SixSheets ==
    <<"Datos_Originales", "Resumen_Ejecutivo", "Analisis_Ventas", "Analisis_Stock",
      "Alertas_Recomendaciones", "Metricas_Detalladas">>

\* C20 as stated: every report holds the six sheets, in this order, whatever
\* the table.
C20_SixSheetsAlways ==
    (last.op = "_generate_excel_report" /\ last.out.ok) => last.out.val.sheets = SixSheets

\* some numeric column of d has a name containing one of the keywords
NumericNamed(d, keywords) ==
    \E c \in 1..NCols(d) :
        d.dtypes[c] = "number" /\ \E kw \in keywords : InLower(kw, d.columns[c])

\* the first column of d whose name contains the keyword has a number of at
\* most "most"
FirstNamedHas(d, keyword, most) ==
    \E c \in 1..NCols(d) :
        /\ InLower(keyword, d.columns[c])
        /\ \A b \in 1..(c - 1) : ~InLower(keyword, d.columns[b])
        /\ \E r \in 1..NRows(d) : Cell(d, r, c).k = "num" /\ Cell(d, r, c).v <= most

\* C20 (amended): every report starts with Datos_Originales and
\* Resumen_Ejecutivo; then, in this order, Analisis_Ventas exactly when a
\* numeric sales column exists, Analisis_Stock exactly when a numeric stock
\* column exists, followed by Stock_Bajo_Alerta when a stock column has a
\* row of at most 5, Alertas_Recomendaciones exactly when there is an alert
\* row or a recommendation, Metricas_Detalladas exactly when the table has a
\* numeric or text column.
C20_SheetsWithData ==
    (last.op = "_generate_excel_report" /\ last.out.ok) =>
        LET recs == _generate_recommendations(df)
            sales == NumericNamed(df, {"venta", "sales", "venda"})
            stock == NumericNamed(df, {"stock", "inventario"})
            low == \E c \in 1..NCols(df) :
                       /\ InLower("stock", df.columns[c]) \/ InLower("inventario", df.columns[c])
                       /\ \E r \in 1..NRows(df) :
                              Cell(df, r, c).k = "num" /\ Cell(df, r, c).v <= 5
            alerts == \/ FirstNamedHas(df, "stock", 5)
                      \/ \E c \in 1..NCols(df) :
                             /\ InLower("vent", df.columns[c])
                             /\ \A b \in 1..(c - 1) : ~InLower("vent", df.columns[b])
                             /\ \E r \in 1..NRows(df) : Cell(df, r, c) = Num(0)
                      \/ last.arg = 1 /\ recs.ok /\ recs.val # <<>>
        IN  last.out.val.sheets =
                <<"Datos_Originales", "Resumen_Ejecutivo">>
                \o (IF sales THEN <<"Analisis_Ventas">> ELSE <<>>)
                \o (IF stock THEN <<"Analisis_Stock">> ELSE <<>>)
                \o (IF stock /\ low THEN <<"Stock_Bajo_Alerta">> ELSE <<>>)
                \o (IF alerts THEN <<"Alertas_Recomendaciones">> ELSE <<>>)
                \o (IF \E c \in 1..NCols(df) : df.dtypes[c] \in {"number", "object"}
                    THEN <<"Metricas_Detalladas">> ELSE <<>>)

\* C20 witness: the report of a table with rows that has no sales column, no
\* stock column and no alert: three sheets
C20_Witness ==
    /\ last.op = "_generate_excel_report"
    /\ last.out.ok
    /\ NRows(df) > 0
    /\ last.out.val.sheets = <<"Datos_Originales", "Resumen_Ejecutivo", "Metricas_Detalladas">>

\* the numerator and the denominator of the population variance of the
\* numbers of column c: (n * SS - S^2) / n^2
PopulationVariance(d, c) ==
    LET values == dropna(d, c)
        n == Len(values)
        S == SumSeq(values)
        SS == SumSeq([j \in 1..n |-> values[j] * values[j]])
    IN  [num |-> n * SS - S * S, den |-> n * n]

\* C22: the sub-report of every numeric sales column holds the population
\* standard deviation of the column: its square times n^2 is n * SS - S^2
\* (variance 1 for the values 0, 2), and a single value gives a value, not
\* an error.
C22_PopulationStd ==
    (/\ last.op = "_analyze_sales"
     /\ NRows(df) > 0
     /\ NumericNames(df, sales_cols(df)) # <<>>)
    => /\ last.out.ok
       /\ \A j \in 1..Len(last.out.val.cols) :
              LET e == last.out.val.cols[j]
                  v == PopulationVariance(df, ColumnPos(df, e.col))
              IN  e.var.num * v.den = v.num * e.var.den

\* C23: _get_basic_statistics reports the number of rows, of columns, of
\* missing cells and of rows that repeat an earlier row (the rows minus the
\* distinct rows); so missing_values <= rows * columns, duplicate_rows <=
\* max(rows - 1, 0) and numeric_columns + categorical_columns <=
\* total_columns.
C23_BasicStatistics ==
    last.op = "_get_basic_statistics" =>
        /\ last.out.ok
        /\ LET st == last.out.val
               missing(r) == Cardinality({c \in 1..NCols(df) : Cell(df, r, c) = NaN})
           IN  /\ st.total_rows = Len(df.rows)
               /\ st.total_columns = Len(df.columns)
               /\ st.missing_values = SumSeq([r \in 1..NRows(df) |-> missing(r)])
               /\ st.duplicate_rows = NRows(df) - Cardinality(Elems(df.rows))
               /\ st.missing_values <= st.total_rows * st.total_columns
               /\ st.duplicate_rows <= (IF st.total_rows > 0 THEN st.total_rows - 1 ELSE 0)
               /\ st.numeric_columns + st.categorical_columns <= st.total_columns

\* C23 witness: the statistics of a table with a repeated row and a missing
\* cell
C23_Witness ==
    /\ last.op = "_get_basic_statistics"
    /\ last.out.ok
    /\ last.out.val.duplicate_rows > 0
    /\ last.out.val.missing_values > 0
    /\ last.out.val.total_rows >= 3

\* C24: no analysis, report or visualization operation modifies the table:
\* every step leaves its columns, column types and cells as they were.
C24_TableNeverModified == [][df' = df]_vars

\* C25: when get_column_mapping resolves the sales role to a numeric column,
\* that column has an entry in the result of _analyze_sales and its zero
\* count decides the rotation rule of _generate_recommendations.
C25_ResolverEngineAgree ==
    LET m == get_column_mapping(df.columns)
    IN  ("sales" \in DOMAIN m /\ df.dtypes[ColumnPos(df, m["sales"])] = "number") =>
            /\ last.op = "_analyze_sales" =>
                   /\ last.out.ok
                   /\ \E j \in 1..Len(last.out.val.cols) :
                          last.out.val.cols[j].col = m["sales"]
            /\ (last.op = "_generate_recommendations" /\ last.out.ok) =>
                   (HasKind(last.out.val, "rotation")
                    <=> 10 * ZerosIn(df, ColumnPos(df, m["sales"])) > 3 * NRows(df))

\* the numeric columns _analyze_sales builds a sub-report for
ReportedSalesCols(d) ==
    {c \in Elems(sales_cols(d)) : d.dtypes[c] = "number"}

\* C26: if a column of the sales analysis has more zeros than 30% of the
\* rows, _generate_recommendations emits the rotation alert, and the count
\* in the alert is the zero count of a column of the sales analysis.
C26_RotationMatchesSalesAnalysis ==
    (last.op = "_generate_recommendations" /\ last.out.ok) =>
        /\ (\E c \in ReportedSalesCols(df) : 10 * ZerosIn(df, c) > 3 * NRows(df))
               => HasKind(last.out.val, "rotation")
        /\ \A j \in 1..Len(last.out.val) :
               last.out.val[j].kind = "rotation"
                   => \E c \in ReportedSalesCols(df) : last.out.val[j].n = ZerosIn(df, c)

\* C21: after _post_process_dataframe (names stripped, all-empty rows
\* dropped, index reset) the table the loader holds has pairwise distinct
\* column names: two raw headers that differ only in surrounding whitespace
\* never end up as two columns with the same name.
C21_ColumnNamesDistinct ==
    loader.df # None =>
        \A i, j \in 1..NCols(loader.df) :
            i # j => loader.df.columns[i] # loader.df.columns[j]

Supported(f) == lower(suffix(f.name)) \in {".csv", ".xlsx", ".xls"}
TooLarge(f) == f.size > 100 * 1024 * 1024
ValidationFails(f) == ~f.exists \/ ~Supported(f) \/ TooLarge(f)

\* C29: validate_file reports the first failure only, in the order missing
\* path (FileNotFoundError, even with an unsupported suffix), suffix outside
\* .csv/.xlsx/.xls compared case-insensitively (ValueError), more than
\* 100 MB (ValueError), and returns True otherwise; when validate_file
\* fails, smart_load raises that same error and leaves the loader's df and
\* metadata as they were.
C29_ValidateOrder ==
    /\ [](last.op \in {"validate_file", "smart_load"} =>
            /\ ~file.exists =>
                  ~last.out.ok /\ last.out.exc = "FileNotFoundError"
            /\ file.exists /\ ~Supported(file) =>
                  ~last.out.ok /\ last.out.exc = "ValueError"
                               /\ last.out.at = "validate_file: format"
            /\ file.exists /\ Supported(file) /\ TooLarge(file) =>
                  ~last.out.ok /\ last.out.exc = "ValueError"
                               /\ last.out.at = "validate_file: size"
            /\ last.op = "validate_file" /\ ~ValidationFails(file) =>
                  last.out = Ok(TRUE))
    /\ [][last'.op = "smart_load" /\ ValidationFails(file) => loader' = loader]_vars

\* C29 witness: smart_load of a missing path with an unsupported suffix, on
\* a loader that holds an earlier table, ended in FileNotFoundError
C29_Witness ==
    /\ last.op = "smart_load"
    /\ ~file.exists
    /\ ~Supported(file)
    /\ last.out.exc = "FileNotFoundError"
    /\ loader.df # None

FieldCount(line, c) == Len(split(line, c))

\* C30: detect_delimiter returns, of ',', ';', tab and '|' in that order,
\* the one that splits the first line into the most fields when that is
\* more than one field, the earliest of them on a tie, and ',' when no
\* candidate gives more than one field or the file cannot be read.
C30_MostFieldsEarliestWins ==
    last.op = "detect_delimiter" =>
        LET line == file.first_line
            most == CHOOSE n \in {FieldCount(line, c) : c \in Elems(delimiters)} :
                        \A c \in Elems(delimiters) : FieldCount(line, c) <= n
        IN  /\ last.out.ok
            /\ IF ~file.exists \/ ~file.readable \/ most <= 1
               THEN last.out.val = ","
               ELSE \E k \in 1..Len(delimiters) :
                        /\ last.out.val = delimiters[k]
                        /\ FieldCount(line, delimiters[k]) = most
                        /\ \A j \in 1..(k - 1) : FieldCount(line, delimiters[j]) < most

\* C30 witness: ';' and '|' both split the first line into two fields, ','
\* does not split it, and ';' was returned
C30_Witness ==
    /\ last.op = "detect_delimiter"
    /\ file.exists /\ file.readable
    /\ FieldCount(file.first_line, ",") = 1
    /\ FieldCount(file.first_line, ";") = 2
    /\ FieldCount(file.first_line, "|") = 2
    /\ last.out.val = ";"

\* what a session's load gives when no other session runs
LoadAlone(upload) == smart_load(NewLoader, TempFile([exists |-> TRUE, content |-> upload])).out

\* C27: for every interleaving of two dashboard sessions that each write,
\* load and remove temp_data.csv, each session loads the bytes it uploaded
\* itself, no load or remove step of a session fails because of the other
\* session, and once the loads have completed or failed no temp_data.csv
\* remains.
C27_SessionsIsolated ==
    /\ \A t \in DOMAIN sessions :
        /\ sessions[t].pc \in {"exists", "remove", "done"} =>
               Ok(sessions[t].df) = LoadAlone(sessions[t].upload)
        /\ sessions[t].pc = "failed" =>
               sessions[t].out = LoadAlone(sessions[t].upload)
    /\ (sessions # <<>> /\ \A t \in DOMAIN sessions : sessions[t].pc \in {"done", "failed"}) =>
           ~disk.exists

\* C28: with N CSV files listed as 1..N, a typed selection that is not an
\* integer in 1..N (text that is no number, 0, a negative number, a number
\* above N) gets the invalid-selection message and no file is loaded or
\* analyzed; a selection k in 1..N analyzes the k-th listed file.
C28_InvalidSelectionRejected ==
    (console.pc \in {"analyze", "returned"} /\ console.csv_files # <<>>) =>
        IF int(console.text).ok /\ int(console.text).val \in 1..Len(console.csv_files)
        THEN console.file = console.csv_files[int(console.text).val]
        ELSE /\ console.pc = "returned"
             /\ console.printed = "invalid selection"
             /\ console.file = ""

=============================================================================
